---- MODULE Spec2Model ----
(***************************************************************************)
(* Model of main.py: the unsigned-RPM audit of a list of container images. *)
(*                                                                         *)
(* The main thread creates a ThreadPoolExecutor with one worker per image  *)
(* reference, maps extract_rpm_db_from_container_image over the references,*)
(* leaves the `with` block (which joins the workers) and then walks the    *)
(* results in input order, calling get_unsigned_rpms_from_rpmdb on every   *)
(* result that is not None and printing a verdict.                         *)
(*                                                                         *)
(* Strings that the code parses (the output of `rpm -qa --qf ...`) are     *)
(* sequences of one-character strings, so that split, `in` and startswith  *)
(* are computed as Python computes them.                                   *)
(***************************************************************************)
EXTENDS Integers, Sequences, FiniteSets, TLC

(***************************************************************************)
(* Bounds of the model.                                                    *)
(***************************************************************************)
MaxImages == 2      \* longest list of image references
MaxRecords == 3     \* most package records in one rpm database

Images == {"a", "b"}

(***************************************************************************)
(* Character strings.                                                      *)
(***************************************************************************)
NL == "\n"
SP == " "

\* the marker of a signed package, main.py line 64
KeyIdMarker == <<"K", "e", "y", " ", "I", "D">>
\* the name of the pseudo-packages that hold imported public keys, line 64
PubkeyPrefix == <<"g", "p", "g", "-", "p", "u", "b", "k", "e", "y">>

\* what rpm's :pgpsig formatter prints for a package without a signature
NoSig == <<"(", "n", "o", "n", "e", ")">>
\* what it prints for a signed one: algorithm, then the key identifier
SomeSig == <<"R", "S", "A", ",", " ">> \o KeyIdMarker \o <<" ", "9", "f">>

\* str.startswith
StartsWith(s, p) ==
    /\ Len(p) <= Len(s)
    /\ SubSeq(s, 1, Len(p)) = p

\* the `in` operator on strings: sub occurs somewhere in s
Contains(s, sub) ==
    \E i \in 1..(Len(s) - Len(sub) + 1) : SubSeq(s, i, i + Len(sub) - 1) = sub

\* position of the first occurrence of the character c in s, 0 when absent
RECURSIVE IndexOf(_, _, _)
IndexOf(s, c, from) ==
    IF from > Len(s) THEN 0
    ELSE IF s[from] = c THEN from
    ELSE IndexOf(s, c, from + 1)

\* str.split(sep) for a one-character separator: always at least one piece,
\* and an empty last piece when s ends with the separator
RECURSIVE Split(_, _)
Split(s, sep) ==
    LET i == IndexOf(s, sep, 1)
    IN  IF i = 0 THEN <<s>>
        ELSE <<SubSeq(s, 1, i - 1)>> \o Split(SubSeq(s, i + 1, Len(s)), sep)

(***************************************************************************)
(* The rpm databases of the images, and the query that prints them.        *)
(***************************************************************************)
Package(n, v, r, sig, kind) ==
    [name |-> n, version |-> v, release |-> r, sig |-> sig, kind |-> kind]

Packages ==
    { Package(<<"s", "h">>, <<"5">>, <<"1">>, SomeSig, "signed"),
      Package(<<"o", "c">>, <<"4">>, <<"2">>, NoSig, "unsigned"),
      Package(<<"j", "q">>, <<"1">>, <<"6">>, NoSig, "unsigned"),
      Package(PubkeyPrefix, <<"f", "4">>, <<"5", "e">>, NoSig, "pseudo") }

RECURSIVE SeqsUpTo(_, _)
SeqsUpTo(S, n) ==
    IF n = 0 THEN {<<>>}
    ELSE LET shorter == SeqsUpTo(S, n - 1)
         IN  shorter \cup {Append(q, x) : q \in {t \in shorter : Len(t) = n - 1}, x \in S}

Databases == SeqsUpTo(Packages, MaxRecords)

\* %{NAME}-%{VERSION}-%{RELEASE}
Nvr(p) == p.name \o <<"-">> \o p.version \o <<"-">> \o p.release

\* one record of the query format "%{NAME}-%{VERSION}-%{RELEASE} %{SIGPGP:pgpsig}\n"
FormatRecord(p) == Nvr(p) \o <<SP>> \o p.sig \o <<NL>>

RECURSIVE QueryFormat(_)
QueryFormat(db) ==
    IF db = <<>> THEN <<>>
    ELSE FormatRecord(Head(db)) \o QueryFormat(Tail(db))

\* the standard output of the query: the formatted records; cut == TRUE is an
\* output whose last line terminator is missing
RpmStdout(db, cut) ==
    LET out == QueryFormat(db)
    IN  IF cut /\ out /= <<>> THEN SubSeq(out, 1, Len(out) - 1) ELSE out


(***************************************************************************)
(* get_unsigned_rpms_from_rpmdb, lines 61-69: the parsing of the output.   *)
(***************************************************************************)
\* the condition of line 64 on one piece of the split output
IsUnsignedLine(rpm) ==
    /\ ~Contains(rpm, KeyIdMarker)
    /\ ~StartsWith(rpm, PubkeyPrefix)

\* rpm.split(" ")[0], line 65
FirstToken(rpm) == Split(rpm, SP)[1]

\* the loop of lines 63-65 over the pieces of stdout.split("\n")
RECURSIVE CollectUnsigned(_)
CollectUnsigned(rpm_list) ==
    IF rpm_list = <<>> THEN <<>>
    ELSE LET rpm == Head(rpm_list)
             rest == CollectUnsigned(Tail(rpm_list))
         IN  IF IsUnsignedLine(rpm) THEN <<FirstToken(rpm)>> \o rest ELSE rest

\* a parser that returns None for the list [] and not for ['']
ParseUnsignedEmptyList(out) ==
    LET unsigned_rpms == CollectUnsigned(Split(out, NL))
    IN  IF unsigned_rpms = <<>>
        THEN [none |-> TRUE, rpms |-> <<>>]
        ELSE [none |-> FALSE, rpms |-> unsigned_rpms]

\* lines 61-69: None when the list is [''], the list otherwise
ParseUnsigned(out) ==
    LET unsigned_rpms == CollectUnsigned(Split(out, NL))
    IN  IF unsigned_rpms = << <<>> >>
        THEN [none |-> TRUE, rpms |-> <<>>]
        ELSE [none |-> FALSE, rpms |-> unsigned_rpms]

(***************************************************************************)
(* The state of a run.                                                     *)
(***************************************************************************)
VARIABLES
    refs,        \* container_image_refs: the input list (line 74)
    rpmdb,       \* the rpm database inside each image (the environment)
    pc,          \* where the main thread is
    k,           \* position of the main thread in the list it walks
    task,        \* state of the extraction submitted for each position
    result,      \* the future of each position: what the extraction returned
    disk,        \* the directories made by mkdtemp and what they hold
    stdout,      \* everything printed so far, in order
    queryCalls,  \* how often the query was started for each position
    proc,        \* the query in flight
    tools,       \* how the external tools may answer for each image
    consumed     \* how often the loop took the result of each position

vars == <<refs, rpmdb, pc, k, task, result, disk, stdout, queryCalls, proc,
          tools, consumed>>

N == Len(refs)

\* max_workers=len(container_image_refs), line 75
MaxWorkers == Len(refs)

NoResult == [kind |-> "pending", ref |-> "", folder |-> 0]
NoProc == [idx |-> 0, folder |-> 0]

\* one printed message; idx, src, exit and cut are not printed, they record
\* which position, database and query the message came from
Message(kind, ref, rpms, idx, src, exit, cut) ==
    [kind |-> kind, ref |-> ref, rpms |-> rpms, idx |-> idx, src |-> src,
     exit |-> exit, cut |-> cut]

LogMessage(kind, i) == Message(kind, refs[i], <<>>, i, "", "", FALSE)

\* the extractions whose external call has been started and has not ended
InFlight == {i \in 1..N : task[i] \in {"running", "hung"}}

TypeOK ==
    /\ refs \in SeqsUpTo(Images, MaxImages)
    /\ pc \in {"start", "map", "shutdown", "loop", "query", "hung", "done", "crashed"}
    /\ k \in 0..(N + 1)
    /\ task \in [1..N -> {"new", "queued", "running", "hung", "done"}]
    /\ queryCalls \in [1..N -> Nat]
    /\ consumed \in [1..N -> Nat]

\* how an external call can end: normally, with a non-zero exit status, by
\* raising another exception than CalledProcessError, or never
ExtractOutcomes == {"ok", "exit_nonzero", "oserror", "hang"}
QueryOutcomes == {"ok", "exit_nonzero", "oserror", "hang"}

\* tools that may answer in any way
AnyAnswer == [extract |-> ExtractOutcomes, query |-> QueryOutcomes, cut |-> BOOLEAN]

InitRun ==
    /\ pc = "start"
    /\ k = 0
    /\ task = [i \in 1..N |-> "new"]
    /\ result = [i \in 1..N |-> NoResult]
    /\ disk = <<>>
    /\ stdout = <<>>
    /\ queryCalls = [i \in 1..N |-> 0]
    /\ consumed = [i \in 1..N |-> 0]
    /\ proc = NoProc

\* a batch of images: one with a database of at most one package, the other
\* with an empty database
Init ==
    /\ refs \in SeqsUpTo(Images, MaxImages)
    /\ rpmdb \in [Images -> {db \in Databases : Len(db) <= 1}]
    /\ rpmdb["b"] = <<>>
    /\ tools = [img \in Images |-> AnyAnswer]
    /\ InitRun

\* one image, with every database up to MaxRecords packages
InitClassify ==
    /\ refs \in SeqsUpTo({"a"}, 1)
    /\ rpmdb \in [Images -> Databases]
    /\ rpmdb["b"] = <<>>
    /\ tools = [img \in Images |-> AnyAnswer]
    /\ InitRun

\* tools that answer in one way for each image: every extraction and every
\* query of the same image ends the same way
DeterministicAnswers ==
    {[extract |-> {e}, query |-> {q}, cut |-> {FALSE}] :
        e \in ExtractOutcomes \ {"hang"}, q \in QueryOutcomes \ {"hang"}}

\* a batch of images of one unsigned package each, with tools that answer
\* in one way for each image
InitDeterministic ==
    /\ refs \in SeqsUpTo(Images, MaxImages)
    /\ rpmdb \in [Images -> {db \in Databases : Len(db) = 1 /\ db[1].kind = "unsigned"}]
    /\ tools \in [Images -> DeterministicAnswers]
    /\ InitRun

(***************************************************************************)
(* The main thread, lines 74-76.                                           *)
(***************************************************************************)
\* ThreadPoolExecutor(max_workers=...), line 75: raises ValueError when
\* max_workers is 0, which nothing catches
CreateExecutor ==
    /\ pc = "start"
    /\ IF MaxWorkers <= 0
       THEN /\ pc' = "crashed"
            /\ k' = k
       ELSE /\ pc' = "map"
            /\ k' = 1
    /\ UNCHANGED <<refs, rpmdb, task, result, disk, stdout, queryCalls, proc, tools, consumed>>

\* executor.map, line 76: submits one call per reference, in input order,
\* before it returns the iterator of the results
Submit ==
    /\ pc = "map"
    /\ task' = [task EXCEPT ![k] = "queued"]
    /\ IF k = N
       THEN /\ pc' = "shutdown"
            /\ k' = 0
       ELSE /\ pc' = pc
            /\ k' = k + 1
    /\ UNCHANGED <<refs, rpmdb, result, disk, stdout, queryCalls, proc, tools, consumed>>

(***************************************************************************)
(* extract_rpm_db_from_container_image, lines 24-44, run by a pool thread. *)
(***************************************************************************)
\* a pool thread runs a queued call while fewer than max_workers calls are
\* running; the threads that took the calls reach line 31 in any order
CanStart(i) ==
    /\ task[i] = "queued"
    /\ Cardinality(InFlight) < MaxWorkers

\* a directory that is used again when one exists already
ReusedFolder == IF disk = <<>> THEN 1 ELSE Len(disk)

\* tempfile.mkdtemp(), line 31: a directory that did not exist before
NewFolder == Len(disk) + 1

\* lines 31-36: mkdtemp, the first print, and the launch of `oc image extract`
ExtractStart(i) ==
    /\ CanStart(i)
    /\ disk' = Append(disk, "")
    /\ result' = [result EXCEPT ![i] = [kind |-> "pending", ref |-> refs[i],
                                        folder |-> NewFolder]]
    /\ stdout' = Append(stdout, LogMessage("Extracting", i))
    /\ task' = [task EXCEPT ![i] = "running"]
    /\ UNCHANGED <<refs, rpmdb, pc, k, queryCalls, proc, tools, consumed>>

\* lines 35-44: the external call ends, or turns out never to end.
\*   ok:           the database is in the folder; (ref, folder) is returned
\*   exit_nonzero: CalledProcessError is caught, a message printed, None returned
\*   oserror:      subprocess.run raises something else (the tool cannot be
\*                 started); it is not caught and becomes the future's exception
\*   hang:         subprocess.run has no timeout, the call stays in flight
ExtractReturn(i, o) ==
    /\ task[i] = "running"
    /\ o \in tools[refs[i]].extract
    /\ task' = [task EXCEPT ![i] = IF o = "hang" THEN "hung" ELSE "done"]
    /\ CASE o = "ok" ->
              /\ disk' = [disk EXCEPT ![result[i].folder] = refs[i]]
              /\ stdout' = Append(stdout, LogMessage("Extracted", i))
              /\ result' = [result EXCEPT ![i].kind = "tuple"]
         [] o = "exit_nonzero" ->
              /\ disk' = disk
              /\ stdout' = Append(stdout, LogMessage("FailedExtract", i))
              /\ result' = [result EXCEPT ![i].kind = "none"]
         [] o = "oserror" ->
              /\ disk' = disk
              /\ stdout' = stdout
              /\ result' = [result EXCEPT ![i].kind = "exception"]
         [] OTHER ->
              /\ UNCHANGED <<disk, stdout, result>>
    /\ UNCHANGED <<refs, rpmdb, pc, k, queryCalls, proc, tools, consumed>>

(***************************************************************************)
(* The main thread, lines 75-85.                                           *)
(***************************************************************************)
\* a pool that is left without joining its threads
ShutdownNoWait == TRUE

\* leaving the `with` block of line 75 calls executor.shutdown(wait=True),
\* which joins the pool threads: every submitted call has ended
ShutdownWait == \A i \in 1..N : task[i] = "done"

Shutdown ==
    /\ pc = "shutdown"
    /\ ShutdownWait
    /\ pc' = "loop"
    /\ k' = 1
    /\ UNCHANGED <<refs, rpmdb, task, result, disk, stdout, queryCalls, proc, tools, consumed>>

\* an iterator that hands the results out last submitted first
MapOrderReversed(n) == Len(refs) + 1 - n

\* the n-th value of the iterator of executor.map is the result of the n-th
\* submitted call (lines 76 and 78)
MapOrder(n) == n

\* a loop that lacks the test for None
NeedsQueryAlways(r) == TRUE

\* `if rpm_db_folder is not None`, line 79
NeedsQuery(r) == r.kind = "tuple"

\* lines 78-80: the next result of the iterator.  A result whose call raised
\* re-raises in the main thread, which nothing catches; None is skipped
\* without any print; for a tuple the query is started on its folder.
LoopNext ==
    /\ pc = "loop"
    /\ IF k > N
       THEN /\ pc' = "done"
            /\ UNCHANGED <<k, queryCalls, proc, consumed>>
       ELSE LET i == MapOrder(k)
                r == result[i]
            IN  /\ task[i] = "done"
                /\ consumed' = [consumed EXCEPT ![i] = @ + 1]
                /\ CASE r.kind = "exception" ->
                          /\ pc' = "crashed"
                          /\ UNCHANGED <<k, queryCalls, proc>>
                     [] r.kind /= "exception" /\ NeedsQuery(r) ->
                          /\ pc' = "query"
                          /\ proc' = [idx |-> i, folder |-> r.folder]
                          /\ queryCalls' = [queryCalls EXCEPT ![i] = @ + 1]
                          /\ k' = k
                     [] OTHER ->
                          /\ pc' = pc
                          /\ k' = k + 1
                          /\ UNCHANGED <<queryCalls, proc>>
    /\ UNCHANGED <<refs, rpmdb, task, result, disk, stdout, tools>>

\* a query that reads the directory made last, whatever folder it is given
DbAtLast(folder) == IF disk[Len(disk)] = "" THEN <<>> ELSE rpmdb[disk[Len(disk)]]

\* the database that `rpm --dbpath folder` reads
DbAt(folder) == IF disk[folder] = "" THEN <<>> ELSE rpmdb[disk[folder]]

\* what the verdict of lines 81-85 prints for the value the parser returned
Verdict(parsed, r, i, o, cut) ==
    IF ~parsed.none
    THEN Message("Unsigned", r.ref, parsed.rpms, i, disk[r.folder], o, cut)
    ELSE Message("AllSigned", r.ref, <<>>, i, disk[r.folder], o, cut)

\* lines 53-69 and 81-85: the query ends.
\*   ok:           stdout is the formatted database
\*   exit_nonzero: subprocess.run has no check=True, so nothing is raised and
\*                 the (empty) stdout is parsed like any other
\*   oserror:      subprocess.run raises (rpm cannot be started); only
\*                 CalledProcessError is caught, so the main thread dies
\*   hang:         subprocess.run has no timeout, the main thread stays in it
QueryReturn(o, cut) ==
    /\ pc = "query"
    /\ o \in tools[refs[proc.idx]].query
    /\ cut \in tools[refs[proc.idx]].cut
    /\ IF o \in {"oserror", "hang"}
       THEN /\ pc' = IF o = "hang" THEN "hung" ELSE "crashed"
            /\ proc' = IF o = "hang" THEN proc ELSE NoProc
            /\ UNCHANGED <<k, stdout>>
       ELSE LET i == proc.idx
                out == IF o = "ok" THEN RpmStdout(DbAt(proc.folder), cut) ELSE <<>>
                wascut == out /= IF o = "ok" THEN QueryFormat(DbAt(proc.folder)) ELSE <<>>
            IN  /\ stdout' = Append(stdout,
                          Verdict(ParseUnsigned(out), result[i], i, o, wascut))
                /\ pc' = "loop"
                /\ k' = k + 1
                /\ proc' = NoProc
    /\ UNCHANGED <<refs, rpmdb, task, result, disk, queryCalls, tools, consumed>>

Next ==
    \/ CreateExecutor
    \/ Submit
    \/ \E i \in 1..N : ExtractStart(i)
    \/ \E i \in 1..N, o \in ExtractOutcomes : ExtractReturn(i, o)
    \/ Shutdown
    \/ LoopNext
    \/ \E o \in QueryOutcomes, cut \in BOOLEAN : QueryReturn(o, cut)

Spec == Init /\ [][Next]_vars

SpecClassify == InitClassify /\ [][Next]_vars

SpecDeterministic == InitDeterministic /\ [][Next]_vars

(***************************************************************************)
(* Properties.                                                             *)
(***************************************************************************)
\* the reports: what the main thread prints in lines 82-85, in order
IsReport(m) == m.kind \in {"Unsigned", "AllSigned"}
Reports == SelectSeq(stdout, IsReport)

\* the status a printed verdict stands for
Status(m) == IF m.kind = "Unsigned" THEN "HasUnsigned" ELSE "AllSigned"

ReportsOf(i) == {p \in DOMAIN Reports : Reports[p].idx = i}

Finished == pc \in {"done", "crashed"}

ExtractionFailed(i) == result[i].kind \in {"none", "exception"}

\* C1: when the run of a non-empty list has completed, every position of
\* the input has exactly one report.
C1_OneReportPerReference ==
    (pc = "done" /\ N > 0) => \A i \in 1..N : Cardinality(ReportsOf(i)) = 1

\* C2: the reports are in input order whatever the order in which the
\* extractions ended, and each report names the reference of its position and
\* was computed from the database of that reference.
C2_ReportsInInputOrder ==
    /\ \A p, q \in DOMAIN Reports : p < q => Reports[p].idx < Reports[q].idx
    /\ \A p \in DOMAIN Reports :
          /\ Reports[p].ref = refs[Reports[p].idx]
          /\ Reports[p].src = refs[Reports[p].idx]

\* both images reported, the second extraction having ended before the first
C2_Witness ==
    /\ N = 2
    /\ refs[1] /= refs[2]
    /\ Len(Reports) = 2
    /\ \E p, q \in DOMAIN stdout :
          /\ p < q
          /\ stdout[p].kind = "Extracted" /\ stdout[p].idx = 2
          /\ stdout[q].kind = "Extracted" /\ stdout[q].idx = 1

\* the query of position j raised in the main thread
QueryRaised(j) == pc = "crashed" /\ queryCalls[j] = 1 /\ ReportsOf(j) = {}

\* C3: a failure of one image does not keep the others from being
\* classified: when the run has ended and the extraction or the query of an
\* image has failed, every other image whose own extraction succeeded has
\* been queried.
C3_FailureIsolation ==
    Finished =>
        \A i, j \in 1..N :
            (/\ refs[i] /= refs[j]
             /\ ExtractionFailed(j) \/ QueryRaised(j)
             /\ result[i].kind = "tuple")
            => queryCalls[i] = 1

\* C4: when the run has completed, every image whose extraction failed has
\* a report with status ExtractionFailed and an empty list.
C4_ExtractionFailedReport ==
    \A i \in 1..N :
        (pc = "done" /\ ExtractionFailed(i)) =>
            \E p \in ReportsOf(i) :
                /\ Status(Reports[p]) = "ExtractionFailed"
                /\ Reports[p].rpms = <<>>

\* C5: the query is never started for an image whose extraction failed.
C5_NoQueryAfterFailedExtraction ==
    \A i \in 1..N : ExtractionFailed(i) => queryCalls[i] = 0

\* a completed run that skipped a failed image and queried another
C5_Witness ==
    /\ pc = "done"
    /\ \E i, j \in 1..N :
          /\ result[i].kind = "none"
          /\ queryCalls[j] = 1

\* C6: a query that exited non-zero is reported as QueryFailed with an
\* empty list, never as AllSigned or HasUnsigned.
C6_QueryFailedReport ==
    \A p \in DOMAIN Reports :
        Reports[p].exit = "exit_nonzero" =>
            /\ Status(Reports[p]) = "QueryFailed"
            /\ Reports[p].rpms = <<>>

\* C7: while a query is in flight, and once any query has been started, no
\* extraction is pending or in flight.
C7_BatchBarrier ==
    (pc = "query" \/ \E i \in 1..N : queryCalls[i] > 0) =>
        \A i \in 1..N : task[i] = "done"

\* the first query in flight, after two extractions that ended out of order
C7_Witness ==
    /\ pc = "query"
    /\ N = 2
    /\ proc.idx = 1
    /\ \E p, q \in DOMAIN stdout :
          /\ p < q
          /\ stdout[p].idx = 2 /\ stdout[p].kind \in {"Extracted", "FailedExtract"}
          /\ stdout[q].idx = 1 /\ stdout[q].kind = "Extracted"

\* C8: with more than one reference, and so with any limit below the number
\* of references, the extractions in flight stay below the number of
\* references.
C8_ConcurrencyBound ==
    N > 1 => Cardinality(InFlight) < N

\* the identifiers of the unsigned packages of a database, in its order
RECURSIVE UnsignedOf(_)
UnsignedOf(db) ==
    IF db = <<>> THEN <<>>
    ELSE IF Head(db).kind = "unsigned"
         THEN <<Nvr(Head(db))>> \o UnsignedOf(Tail(db))
         ELSE UnsignedOf(Tail(db))

Kinds(db) == {db[j].kind : j \in DOMAIN db}

\* C9: for the complete output of a successful query on a database that
\* mixes signed, pseudo and unsigned packages, the reported list is exactly
\* the identifiers of the unsigned packages, in order.
C9_ExactlyTheUnsigned ==
    \A p \in DOMAIN Reports :
        LET m == Reports[p]
        IN  (/\ m.exit = "ok"
             /\ ~m.cut
             /\ Kinds(rpmdb[m.src]) = {"signed", "pseudo", "unsigned"})
            => m.rpms = UnsignedOf(rpmdb[m.src])

\* C10: for the output of a successful query on a database of signed and
\* pseudo packages only, with or without its last line terminator, the
\* report is AllSigned with an empty list.
C10_OnlySignedIsAllSigned ==
    \A p \in DOMAIN Reports :
        LET m == Reports[p]
        IN  (/\ m.exit = "ok"
             /\ rpmdb[m.src] /= <<>>
             /\ Kinds(rpmdb[m.src]) \subseteq {"signed", "pseudo"})
            => (Status(m) = "AllSigned" /\ m.rpms = <<>>)

\* C11: a query that succeeds with an empty output is reported as
\* AllSigned with an empty list.
C11_EmptyOutputIsAllSigned ==
    \A p \in DOMAIN Reports :
        LET m == Reports[p]
        IN  (m.exit = "ok" /\ RpmStdout(rpmdb[m.src], m.cut) = <<>>)
            => (m.kind = "AllSigned" /\ m.rpms = <<>>)

\* the report of a successful query on an image with an empty database
C11_Witness ==
    \E p \in DOMAIN Reports :
        /\ Reports[p].exit = "ok"
        /\ rpmdb[Reports[p].src] = <<>>
        /\ Reports[p].kind = "AllSigned"

\* C12: in every report, the status is AllSigned exactly when the list of
\* unsigned packages is empty.
C12_AllSignedIffEmpty ==
    \A p \in DOMAIN Reports :
        (Status(Reports[p]) = "AllSigned") <=> (Reports[p].rpms = <<>>)

\* C13: a hung external call does not stall the run: as long as the run has
\* not ended, some step of it can still be taken.
C13_HungToolDoesNotStall ==
    ((\E i \in 1..N : task[i] = "hung") \/ pc = "hung") =>
        (Finished \/ ENABLED Next)

\* what the value returned by the extractor carries of the reference: a
\* tuple carries it, None carries nothing
ReturnedRef(r) == IF r.kind = "tuple" THEN r.ref ELSE ""

\* C14: every extraction that has ended has returned (not raised) a value
\* that carries the reference of its image.
C14_ExtractorNeverRaises ==
    \A i \in 1..N :
        task[i] = "done" =>
            /\ result[i].kind /= "exception"
            /\ ReturnedRef(result[i]) = refs[i]

\* the one way in which the tools answer for an image
ExtractAnswer(img) == CHOOSE e \in tools[img].extract : TRUE
QueryAnswer(img) == CHOOSE q \in tools[img].query : TRUE
CutAnswer(img) == CHOOSE c \in tools[img].cut : TRUE

\* the report of an image, from the answers of the tools for it alone
ExpectedReport(i) ==
    LET img == refs[i]
        q == QueryAnswer(img)
        c == q = "ok" /\ CutAnswer(img)
        parsed == ParseUnsigned(IF q = "ok" THEN RpmStdout(rpmdb[img], c) ELSE <<>>)
    IN  Message(IF parsed.none THEN "AllSigned" ELSE "Unsigned",
                img, parsed.rpms, i, img, q, c)

\* the reports of the positions from i on, walked one after the other: the
\* sequence that depends on the list and on the answers only
RECURSIVE ExpectedReports(_)
ExpectedReports(i) ==
    IF i > N THEN <<>>
    ELSE LET e == ExtractAnswer(refs[i])
             q == QueryAnswer(refs[i])
         IN  IF e = "exit_nonzero" THEN ExpectedReports(i + 1)
             ELSE IF e = "ok" /\ q \in {"ok", "exit_nonzero"}
                  THEN <<ExpectedReport(i)>> \o ExpectedReports(i + 1)
                  ELSE <<>>

\* C15: with tools that answer in one way for each image, the reports of a
\* run that has ended are a function of the list of references, whatever the
\* interleaving of the extractions: any two runs on the same list print the
\* same reports.
C15_SameReportsEveryRun ==
    Finished => Reports = ExpectedReports(1)

\* an ended run of two different images, both reported, in which the second
\* extraction started first and ended first
C15_Witness ==
    /\ Finished
    /\ N = 2
    /\ refs[1] /= refs[2]
    /\ rpmdb[refs[1]] /= rpmdb[refs[2]]
    /\ Len(Reports) = 2
    /\ result[2].folder = 1
    /\ \E p, q \in DOMAIN stdout :
          /\ p < q
          /\ stdout[p].kind = "Extracted" /\ stdout[p].idx = 2
          /\ stdout[q].kind = "Extracted" /\ stdout[q].idx = 1

\* C16: when the run has completed, no directory made by an extraction is
\* left on the disk.
C16_AllLocationsDisposed ==
    pc = "done" => \A i \in 1..N : result[i].folder \notin DOMAIN disk

\* C17: no two extractions own the same directory, a directory holds only
\* the database of the image of its owner, and the query of a position reads
\* the directory of that position.
C17_StorageIsolation ==
    /\ \A i, j \in 1..N :
          (i /= j /\ result[i].folder /= 0 /\ result[j].folder /= 0)
          => result[i].folder /= result[j].folder
    /\ \A i \in 1..N :
          result[i].folder /= 0 => disk[result[i].folder] \in {"", refs[i]}
    /\ pc \in {"query", "hung"} =>
          /\ proc.folder = result[proc.idx].folder
          /\ disk[proc.folder] = refs[proc.idx]

\* the same reference listed twice, both extracted, the query of the second
\* in flight
C17_Witness ==
    /\ N = 2
    /\ refs[1] = refs[2]
    /\ result[1].kind = "tuple"
    /\ pc = "query"
    /\ proc.idx = 2

\* how often the extractor was entered for a position: once for each first
\* line it printed (line 32)
ExtractCalls(i) ==
    Cardinality({p \in DOMAIN stdout :
                    stdout[p].kind = "Extracting" /\ stdout[p].idx = i})

\* C18: when the run has ended, the extractor has been invoked exactly once
\* for every position and the loop has taken every result exactly once.
C18_SingleAttempt ==
    Finished => \A i \in 1..N : ExtractCalls(i) = 1 /\ consumed[i] = 1

RECURSIVE SumUpTo(_, _)
SumUpTo(f, n) == IF n = 0 THEN 0 ELSE f[n] + SumUpTo(f, n - 1)

\* C19: at most one query has been started without its report being
\* printed, and a query is started for a position only when every earlier
\* position that was extracted has its report.
C19_SequentialClassification ==
    /\ SumUpTo(queryCalls, N) - Len(Reports) <= 1
    /\ \A i \in 1..N :
          queryCalls[i] > 0 =>
              \A j \in 1..(i - 1) : result[j].kind = "tuple" => ReportsOf(j) /= {}

\* the query of the second position in flight, the first being reported
C19_Witness ==
    /\ pc = "query"
    /\ proc.idx = 2
    /\ ReportsOf(1) /= {}
    /\ ReportsOf(2) = {}

\* C20: for an empty list the run ends normally, with nothing printed.
C20_EmptyInputCompletes ==
    (N = 0 /\ Finished) => (pc = "done" /\ stdout = <<>>)

====
